---------------------------- MODULE Spec2Model ----------------------------
(***************************************************************************)
(* Model of the incremental batch fetcher, src/request.py                  *)
(* (class ParallelDownloader and main).                                    *)
(*                                                                         *)
(* A run is: construct the downloader (Init), filter_existing_files,       *)
(* process_downloads (random batches of download_single coroutines gated   *)
(* by one asyncio.Semaphore), summary.  The coroutines run on one event    *)
(* loop, so every action below is the code between two suspension points   *)
(* (await / async with).                                                   *)
(*                                                                         *)
(* File contents are abstracted to the features the code inspects: whether *)
(* the text is empty, whether json.loads accepts it (and yields a dict),   *)
(* whether it contains a KML marker, and the values of the three           *)
(* timestamp fields.  Destination paths never end in ".tmp", so no         *)
(* destination is the temporary sibling of another destination.            *)
(***************************************************************************)
EXTENDS Integers, Sequences, FiniteSets, TLC

(* ------------------------------ bounds -------------------------------- *)
MaxTasks == 2          \* longest manifest
MaxT == 2              \* timestamps are the instants 1..MaxT

VARIABLES
    content_type,        \* self.content_type
    min_batch_size,      \* self.min_batch_size
    max_batch_size,      \* self.max_batch_size
    max_concurrent,      \* self.max_concurrent
    min_delay,           \* self.min_delay, in seconds
    max_delay,           \* self.max_delay, in seconds
    timestamps_data,     \* self.timestamps_data : proposal id -> timestamp
    urls_and_paths,      \* main: the parsed manifest, a sequence of tasks
    fs,                  \* the file system: path -> content
    phase,               \* position of main / process_downloads
    urls_to_download,    \* main: the filtered list
    remaining,           \* process_downloads: the list of tasks left
    batch,               \* download_batch: the coroutines of the current batch
    batch_num,           \* process_downloads: batch counter
    pc,                  \* position of each download_single coroutine
    result,              \* what each coroutine returned to gather
    semaphore,           \* self.semaphore._value
    downloaded, skipped, failed, force_redownloaded,   \* the four counters
    run,                 \* which invocation of the program this is
    pre,                 \* history: fs when the current run started
    got,                 \* history: <<path, body>> validated by a worker
    classOf,             \* history: branch filter_existing_files took per task
    batchOf,             \* history: batch number each queued task went into
    ended,               \* history: the summaries of the runs that ended
    url_file,            \* the manifest file main is given
    started,             \* the task of each download_single coroutine created
    tracing,             \* whether this behaviour records exitPath
    exitPath,            \* history: how each coroutine left download_single
    timestamp_file,      \* the index file the downloader is given
    warnings,            \* the warnings _load_timestamps and parse_url_file print
    server,              \* the bodies the remote service may answer with
    pauses               \* history: the delay of each asyncio.sleep of the run

vars == << content_type, min_batch_size, max_batch_size, max_concurrent,
           timestamps_data, urls_and_paths, fs, phase, urls_to_download,
           remaining, batch, batch_num, pc, result, semaphore,
           downloaded, skipped, failed, force_redownloaded,
           run, pre, got, classOf, batchOf, ended,
           url_file, started, tracing, exitPath, timestamp_file, warnings,
           server, min_delay, max_delay, pauses >>

cfgVars == << content_type, min_batch_size, max_batch_size, max_concurrent,
              timestamps_data, urls_and_paths, url_file, tracing,
              timestamp_file, warnings, server, min_delay, max_delay >>

(* --------------------------- paths and ids ---------------------------- *)
\* A path is a directory and a filename; the filename is a sequence of
\* pieces so that the code's string operations can be computed on it.
Path(d, n) == [dir |-> d, name |-> n]

Basename(p) == p.name

\* temp_path = f"{output_path}.tmp"
TempPath(p) == [p EXCEPT !.name = @ \o << ".tmp" >>]

\* proposal_id = filename.replace('.json', '')
ProposalId(p) == SelectSeq(Basename(p), LAMBDA piece : piece # ".json")

D1 == Path("raw", << "7", ".json" >>)
D2 == Path("raw", << "8", ".kml" >>)
Dests == {D1, D2}
AllPaths == Dests \cup {TempPath(d) : d \in Dests}

(* ----------------------------- timestamps ----------------------------- *)
\* The value of a timestamp field: missing (no such key), falsy (null, "",
\* 0), nonstr (a truthy value that is no string), garbage (a string that
\* datetime.fromisoformat rejects), naive / aware (an ISO timestamp without /
\* with a UTC offset, at instant t).
Ts(k, t) == [k |-> k, t |-> t]
Missing == Ts("missing", 0)
Falsy == Ts("falsy", 0)
NonStr == Ts("nonstr", 0)
GarbageTs == Ts("garbage", 0)
Instants == 1..MaxT
ParsedTs == {Ts(k, t) : k \in {"naive", "aware"}, t \in Instants}
\* what _load_timestamps keeps: item.get('app_updated_on') is truthy
IndexTs == {NonStr, GarbageTs} \cup ParsedTs
FieldTs == {Missing, Falsy} \cup IndexTs

(* ------------------------------ contents ------------------------------ *)
NoTs == << Missing, Missing, Missing >>
Absent == [k |-> "absent", json |-> "none", kml |-> FALSE, ts |-> NoTs, partial |-> FALSE]
\* a file or a response body
Doc(j, m, t) == [k |-> "text", json |-> j, kml |-> m, ts |-> t, partial |-> FALSE]
Empty == [k |-> "empty", json |-> "none", kml |-> FALSE, ts |-> NoTs, partial |-> FALSE]
\* white space only: the size is positive, content.strip() is empty
Blank == [k |-> "blank", json |-> "none", kml |-> FALSE, ts |-> NoTs, partial |-> FALSE]
Garbage == Doc("none", FALSE, NoTs)
KmlDoc == Doc("none", TRUE, NoTs)
JsonList == Doc("other", FALSE, NoTs)
JsonDoc(t) == Doc("dict", FALSE, << t, Missing, Missing >>)
JsonKmlDoc(t) == Doc("dict", TRUE, << t, Missing, Missing >>)

\* what a write that fails part-way leaves: a prefix of the text
Truncated(b) == [b EXCEPT !.json = "none", !.partial = TRUE]

Exists(f, p) == f[p].k # "absent"


(* ------------------------- the Staleness Index ------------------------ *)
NoIndex == [id \in {} |-> Missing]

\* faulty variant: a field whose value is falsy is passed over
ExistingTimestampFirstTruthy(c) ==
    IF c.ts[1] \notin {Missing, Falsy} THEN c.ts[1]
    ELSE IF c.ts[2] \notin {Missing, Falsy} THEN c.ts[2]
    ELSE c.ts[3]

\* first recognised field present in the cached dict, in the order
\* app_updated_on, Application Updated On, updated_on (None when none is)
ExistingTimestamp(c) ==
    IF c.ts[1] # Missing THEN c.ts[1]
    ELSE IF c.ts[2] # Missing THEN c.ts[2]
    ELSE c.ts[3]

\* faulty variant: the comparison the wrong way round
LaterReversed(cur, ex) == ex.t > cur.t

\* faulty variant: an equal timestamp counts as an update
LaterOrEqual(cur, ex) == cur.t >= ex.t

\* current_dt > existing_dt
Later(cur, ex) == cur.t > ex.t

\* lines 86-95 with the handlers they reach: the two timestamps are parsed
\* (current first) and compared.  A ValueError of fromisoformat returns
\* True; an AttributeError (a value that is no string) or a TypeError (an
\* aware timestamp against a naive one) reaches the outer handler: False.
CompareParsed(current_timestamp, existing_timestamp) ==
    IF current_timestamp.k = "nonstr" THEN FALSE
    ELSE IF current_timestamp.k = "garbage" THEN TRUE
    ELSE IF existing_timestamp.k = "nonstr" THEN FALSE
    ELSE IF existing_timestamp.k = "garbage" THEN TRUE
    ELSE IF current_timestamp.k # existing_timestamp.k THEN FALSE
    ELSE Later(current_timestamp, existing_timestamp)

\* faulty variant: a cached dict without a usable timestamp is re-downloaded
CompareTimestampsFailSafe(f, current_timestamp, output_path) ==
    LET existing_data == f[output_path]
        existing_timestamp == ExistingTimestamp(existing_data)
    IN  IF ~Exists(f, output_path) THEN FALSE
        ELSE IF existing_data.json = "none" THEN FALSE
        ELSE IF existing_data.json # "dict" THEN FALSE
        ELSE IF existing_timestamp.k \in {"missing", "falsy"} THEN TRUE
        ELSE CompareParsed(current_timestamp, existing_timestamp)

\* the try block of _should_redownload_file (lines 68-102)
CompareTimestamps(f, current_timestamp, output_path) ==
    LET existing_data == f[output_path]
        existing_timestamp == ExistingTimestamp(existing_data)
    IN  IF ~Exists(f, output_path) THEN FALSE
        \* json.load raises: outer except, return False
        ELSE IF existing_data.json = "none" THEN FALSE
        \* not a dict: no field is found, or the lookup raises TypeError
        ELSE IF existing_data.json # "dict" THEN FALSE
        \* if existing_timestamp: None and falsy values fall through
        ELSE IF existing_timestamp.k \in {"missing", "falsy"} THEN FALSE
        ELSE CompareParsed(current_timestamp, existing_timestamp)

\* faulty variant: an id that the index does not know counts as stale
ShouldRedownloadUnindexed(f, ts_data, output_path) ==
    LET proposal_id == ProposalId(output_path)
    IN  IF proposal_id \in DOMAIN ts_data
        THEN CompareTimestamps(f, ts_data[proposal_id], output_path)
        ELSE Exists(f, output_path)

\* _should_redownload_file, on the file system f
ShouldRedownloadFile(f, ts_data, output_path) ==
    LET proposal_id == ProposalId(output_path)
    IN  IF DOMAIN ts_data = {} THEN FALSE
        ELSE IF proposal_id \notin DOMAIN ts_data THEN FALSE
        ELSE CompareTimestamps(f, ts_data[proposal_id], output_path)

(* --------------------------- Cache Validator -------------------------- *)
\* validate_file_content: open() raises IOError on a missing file; json.loads
\* for 'json', a KML tag for 'kml', any non-blank text otherwise
ValidateFileContent(f, kind, file_path) ==
    LET content == f[file_path]
    IN  IF ~Exists(f, file_path) THEN FALSE
        ELSE IF kind = "json" THEN content.json # "none"
        ELSE IF kind = "kml" THEN content.kml
        ELSE content.k = "text"

\* os.path.exists(output_path) and os.path.getsize(output_path) > 0
FileExists(f, output_path) ==
    Exists(f, output_path) /\ f[output_path].k # "empty"

(* ----------------------- Refresh Decision Filter ---------------------- *)
\* the branch one iteration of filter_existing_files takes
Branch(f, kind, ts_data, output_path) ==
    LET file_exists == FileExists(f, output_path)
        should_redownload == ShouldRedownloadFile(f, ts_data, output_path)
    IN  IF file_exists /\ ValidateFileContent(f, kind, output_path)
           /\ ~should_redownload
        THEN "skip"
        ELSE IF file_exists /\ should_redownload THEN "force"
        ELSE "fetch"

Positions(s) == 1..Len(s)

\* faulty variant: the skip branch lacks its "continue"
ToDownloadAll(f, kind, ts_data, tasks) == tasks

\* urls_to_download: the tasks whose iteration did not take the skip branch,
\* in manifest order
ToDownload(f, kind, ts_data, tasks) ==
    SelectSeq(tasks, LAMBDA t : Branch(f, kind, ts_data, t.path) # "skip")

\* faulty variant: the filter deletes a cached file it does not skip
FilterExistingFilesDeleting ==
    /\ phase = "start"
    /\ LET cls == [i \in Positions(urls_and_paths) |->
                     Branch(fs, content_type, timestamps_data, urls_and_paths[i].path)]
       IN  /\ classOf' = cls
           /\ skipped' = skipped + Cardinality({i \in Positions(cls) : cls[i] = "skip"})
           /\ force_redownloaded' =
                force_redownloaded + Cardinality({i \in Positions(cls) : cls[i] = "force"})
           /\ urls_to_download' =
                ToDownload(fs, content_type, timestamps_data, urls_and_paths)
           /\ fs' = [p \in DOMAIN fs |->
                       IF \E i \in Positions(cls) :
                             urls_and_paths[i].path = p /\ cls[i] # "skip"
                       THEN Absent ELSE fs[p]]
    /\ phase' = "filtered"
    /\ UNCHANGED << cfgVars, pauses, remaining, batch, batch_num, pc, result,
                    semaphore, downloaded, failed, run, pre, got, batchOf, ended, started,
                    exitPath >>

\* filter_existing_files: the whole loop
FilterExistingFiles ==
    /\ phase = "start"
    /\ LET cls == [i \in Positions(urls_and_paths) |->
                     Branch(fs, content_type, timestamps_data, urls_and_paths[i].path)]
       IN  /\ classOf' = cls
           /\ skipped' = skipped + Cardinality({i \in Positions(cls) : cls[i] = "skip"})
           /\ force_redownloaded' =
                force_redownloaded + Cardinality({i \in Positions(cls) : cls[i] = "force"})
           /\ urls_to_download' =
                ToDownload(fs, content_type, timestamps_data, urls_and_paths)
    /\ phase' = "filtered"
    /\ UNCHANGED << cfgVars, pauses, fs, remaining, batch, batch_num, pc, result,
                    semaphore, downloaded, failed, run, pre, got, batchOf, ended, started,
                    exitPath >>

(* ------------------------------ Fetch Worker -------------------------- *)
\* faulty variant: the body is not validated
BodyValidNoCheck(kind, content) == TRUE

\* faulty variant: only a json body is checked
BodyValidJsonOnly(kind, content) ==
    IF kind = "json" THEN content.json # "none" ELSE TRUE

\* the validation download_single applies to a response body (no check for
\* a content type other than 'json' and 'kml')
BodyValid(kind, content) ==
    IF kind = "json" THEN content.json # "none"
    ELSE IF kind = "kml" THEN content.kml
    ELSE TRUE

\* what a server may answer
Statuses == {200, 204, 404}
JsonBody == JsonDoc(Ts("aware", MaxT))
Bodies == {JsonBody, KmlDoc, Garbage}

\* the (url, output_path) the i-th coroutine was created with
Task(i) == started[i]

\* how a coroutine left download_single, and the status it had received
Exit(how, status) == [how |-> how, status |-> status]
NoExit == Exit("none", 0)
Record(i, e) == IF tracing THEN [exitPath EXCEPT ![i] = e] ELSE exitPath

\* faulty variant: the cleanup removes the destination with the temp file
CleanupOutcomesWithDestination(f, temp_path) ==
    LET output_path ==
            [temp_path EXCEPT !.name = SubSeq(@, 1, Len(@) - 1)]
    IN  { [fs |-> [f EXCEPT ![temp_path] = Absent, ![output_path] = Absent],
           result |-> "false"] }

\* the except branch: if os.path.exists(temp_path): os.remove(temp_path).
\* os.remove may itself raise; the exception then leaves download_single.
CleanupOutcomes(f, temp_path) ==
    IF Exists(f, temp_path)
    THEN { [fs |-> [f EXCEPT ![temp_path] = Absent], result |-> "false"],
           [fs |-> f, result |-> "exc"] }
    ELSE { [fs |-> f, result |-> "false"] }

\* faulty variant: a coroutine that failed goes back to wait for a slot
FinishRetry(i, f, res) ==
    /\ fs' = f
    /\ result' = [result EXCEPT ![i] = IF res = "true" THEN res ELSE "none"]
    /\ pc' = [pc EXCEPT ![i] = IF res = "true" THEN "done" ELSE "created"]
    /\ semaphore' = semaphore + 1

\* faulty variant: the slot is released on the success path only
FinishLeak(i, f, res) ==
    /\ fs' = f
    /\ result' = [result EXCEPT ![i] = res]
    /\ pc' = [pc EXCEPT ![i] = "done"]
    /\ semaphore' = IF res = "true" THEN semaphore + 1 ELSE semaphore

\* a coroutine leaves "async with self.semaphore": the slot is released
Finish(i, f, res) ==
    /\ fs' = f
    /\ result' = [result EXCEPT ![i] = res]
    /\ pc' = [pc EXCEPT ![i] = "done"]
    /\ semaphore' = semaphore + 1

\* faulty variant: the gate keeps one slot back
CanAcquireStrict(value) == value > 1

\* faulty variant: no gate
CanAcquireAlways(value) == TRUE

\* asyncio.Semaphore.acquire does not block
CanAcquire(value) == value > 0

\* async with self.semaphore, then os.makedirs and the request is sent
Acquire(i) ==
    /\ pc[i] = "created"
    /\ CanAcquire(semaphore)
    /\ semaphore' = semaphore - 1
    /\ pc' = [pc EXCEPT ![i] = "request"]
    /\ UNCHANGED << cfgVars, pauses, fs, phase, urls_to_download, remaining, batch,
                    batch_num, result, downloaded, skipped, failed,
                    force_redownloaded, run, pre, got, classOf, batchOf, ended, started,
                    exitPath >>

\* os.makedirs raises right after the slot was taken: except branch, and
\* the slot is given back in the same step
AcquireMakedirsFails(i) ==
    /\ pc[i] = "created"
    /\ CanAcquire(semaphore)
    /\ \E o \in CleanupOutcomes(fs, TempPath(Task(i).path)) :
          /\ fs' = o.fs
          /\ result' = [result EXCEPT ![i] = o.result]
    /\ pc' = [pc EXCEPT ![i] = "done"]
    /\ exitPath' = Record(i, Exit("makedirs", 0))
    /\ UNCHANGED << cfgVars, pauses, phase, urls_to_download, remaining, batch,
                    batch_num, semaphore, downloaded, skipped, failed,
                    force_redownloaded, run, pre, got, classOf, batchOf, ended, started >>

\* the response head arrives: if response.status == 200
RespondOk(i) ==
    /\ pc[i] = "request"
    /\ pc' = [pc EXCEPT ![i] = "reading"]
    /\ UNCHANGED << cfgVars, pauses, fs, phase, urls_to_download, remaining, batch,
                    batch_num, result, semaphore, downloaded, skipped, failed,
                    force_redownloaded, run, pre, got, classOf, batchOf, ended, started,
                    exitPath >>

\* any other status: print and return False
RespondStatus(i) ==
    /\ pc[i] = "request"
    /\ \E status \in Statuses \ {200} :
          /\ Finish(i, fs, "false")
          /\ exitPath' = Record(i, Exit("status", status))
    /\ UNCHANGED << cfgVars, pauses, phase, urls_to_download, remaining, batch,
                    batch_num, downloaded, skipped, failed,
                    force_redownloaded, run, pre, got, classOf, batchOf, ended, started >>

\* the request, or reading the body, raises (timeout, connection error)
NetworkError(i) ==
    /\ pc[i] \in {"request", "reading"}
    /\ \E o \in CleanupOutcomes(fs, TempPath(Task(i).path)) :
          Finish(i, o.fs, o.result)
    /\ exitPath' = Record(i, Exit("network", IF pc[i] = "reading" THEN 200 ELSE 0))
    /\ UNCHANGED << cfgVars, pauses, phase, urls_to_download, remaining, batch,
                    batch_num, downloaded, skipped, failed,
                    force_redownloaded, run, pre, got, classOf, batchOf, ended, started >>

\* content = await response.text() returned a body the validation rejects
BodyInvalid(i) ==
    /\ pc[i] = "reading"
    /\ \E content \in server :
          /\ ~BodyValid(content_type, content)
          /\ Finish(i, fs, "false")
    /\ exitPath' = Record(i, Exit("invalid", 200))
    /\ UNCHANGED << cfgVars, pauses, phase, urls_to_download, remaining, batch,
                    batch_num, downloaded, skipped, failed,
                    force_redownloaded, run, pre, got, classOf, batchOf, ended, started >>

\* faulty variant: the temporary file is written but never renamed
CommitNoRename(f, output_path, content) ==
    [f EXCEPT ![TempPath(output_path)] = content]

\* with open(temp_path, 'w') as f: f.write(content); os.rename(temp_path,
\* output_path), when all of it succeeds
Commit(f, output_path, content) ==
    [f EXCEPT ![TempPath(output_path)] = Absent, ![output_path] = content]

\* faulty variant: the destination is unlinked before the rename
WriteFailuresDestLost(f, output_path, content) ==
    { [f EXCEPT ![output_path] = Absent] }

\* faulty variant: the body is written straight to the destination
WriteFailuresInPlace(f, output_path, content) ==
    { f, [f EXCEPT ![output_path] = Truncated(content)] }

\* the file system when open, write or rename raises, before the cleanup
WriteFailures(f, output_path, content) ==
    { f,                                                       \* open raises
      [f EXCEPT ![TempPath(output_path)] = Truncated(content)], \* write raises
      [f EXCEPT ![TempPath(output_path)] = content] }           \* rename raises

\* a valid body is written and renamed: self.downloaded += 1, return True
BodyCommitted(i) ==
    /\ pc[i] = "reading"
    /\ \E content \in server :
          /\ BodyValid(content_type, content)
          /\ got' = got \cup {<< Task(i).path, content >>}
          /\ Finish(i, Commit(fs, Task(i).path, content), "true")
    /\ downloaded' = downloaded + 1
    /\ exitPath' = Record(i, Exit("commit", 200))
    /\ UNCHANGED << cfgVars, pauses, phase, urls_to_download, remaining, batch,
                    batch_num, skipped, failed,
                    force_redownloaded, run, pre, classOf, batchOf, ended, started >>

\* a valid body, but open, write or rename raises: except branch
WriteFails(i) ==
    /\ pc[i] = "reading"
    /\ \E content \in server :
          /\ BodyValid(content_type, content)
          /\ got' = got \cup {<< Task(i).path, content >>}
          /\ \E f \in WriteFailures(fs, Task(i).path, content) :
                \E o \in CleanupOutcomes(f, TempPath(Task(i).path)) :
                    Finish(i, o.fs, o.result)
    /\ exitPath' = Record(i, Exit("write", 200))
    /\ UNCHANGED << cfgVars, pauses, phase, urls_to_download, remaining, batch,
                    batch_num, downloaded, skipped, failed,
                    force_redownloaded, run, pre, classOf, batchOf, ended, started >>

(* ----------------------------- Batch Scheduler ------------------------ *)
Min(a, b) == IF a < b THEN a ELSE b

\* faulty variant: the lower end of the range is always 1
BatchSizesFromOne(min_size, max_size, n_remaining) ==
    1 .. Min(max_size, n_remaining)

\* random.randint(effective_min_batch, effective_max_batch)
BatchSizes(min_size, max_size, n_remaining) ==
    Min(min_size, n_remaining) .. Min(max_size, n_remaining)

\* random.sample(remaining, batch_size): any batch_size positions of the list
Samples(rem, batch_size) == {b \in SUBSET rem : Cardinality(b) = batch_size}

\* the items random.sample returns for the positions it picked
ItemsAt(s, picked) ==
    LET F[k \in 0..Len(s)] ==
            IF k = 0 THEN << >>
            ELSE IF k \in picked THEN Append(F[k - 1], s[k]) ELSE F[k - 1]
    IN  F[Len(s)]

\* faulty variant: every copy of the item is removed
RemoveEvery(s, item) == SelectSeq(s, LAMBDA x : x # item)

\* faulty variant: the item is not removed
RemoveNothing(s, item) == s

\* remaining.remove(item): the first element equal to item is removed
RemoveItem(s, item) ==
    LET hits == {k \in DOMAIN s : s[k] = item}
        first == CHOOSE k \in hits : \A j \in hits : k <= j
    IN  IF hits = {} THEN s
        ELSE SubSeq(s, 1, first - 1) \o SubSeq(s, first + 1, Len(s))

\* for item in batch: remaining.remove(item)
RemoveBatch(s, items) ==
    LET F[k \in 0..Len(items)] ==
            IF k = 0 THEN s ELSE RemoveItem(F[k - 1], items[k])
    IN  F[Len(items)]

Fill(n, v) == [k \in 1..n |-> v]

\* main: if urls_to_download: asyncio.run(process_downloads(...)), else the
\* summary; process_downloads: remaining = urls_and_paths.copy()
ProcessDownloads ==
    /\ phase = "filtered"
    /\ IF urls_to_download = << >>
       THEN /\ phase' = "summary"
            /\ UNCHANGED remaining
       ELSE /\ phase' = "loop"
            /\ remaining' = urls_to_download
    /\ batch_num' = 0
    /\ UNCHANGED << cfgVars, pauses, fs, urls_to_download, batch, semaphore,
                    pc, result, batchOf,
                    downloaded, skipped, failed, force_redownloaded,
                    run, pre, got, classOf, ended, started,
                    exitPath >>

\* one pass of "while remaining" up to "await self.download_batch": draw the
\* batch, take it out of remaining, create one task per item
DrawBatch ==
    /\ phase = "loop" /\ remaining # << >>
    /\ batch_num' = batch_num + 1
    /\ \E batch_size \in BatchSizes(min_batch_size, max_batch_size,
                                    Len(remaining)) :
         \E picked \in Samples(Positions(remaining), batch_size) :
            LET items == ItemsAt(remaining, picked)
                n == Len(items)
            IN  /\ remaining' = RemoveBatch(remaining, items)
                /\ started' = started \o items
                /\ batch' = (Len(started) + 1)..(Len(started) + n)
                /\ pc' = pc \o Fill(n, "created")
                /\ result' = result \o Fill(n, "none")
                /\ batchOf' = batchOf \o Fill(n, batch_num + 1)
                /\ exitPath' = IF tracing THEN exitPath \o Fill(n, NoExit)
                                          ELSE exitPath
    /\ phase' = "gather"
    /\ UNCHANGED << cfgVars, pauses, fs, urls_to_download, semaphore,
                    downloaded, skipped, failed, force_redownloaded,
                    run, pre, got, classOf, ended >>

\* random.randint raises ValueError on an empty range, random.sample on a
\* negative size
DrawRaises(min_size, max_size, n_remaining) ==
    \/ BatchSizes(min_size, max_size, n_remaining) = {}
    \/ \E batch_size \in BatchSizes(min_size, max_size, n_remaining) :
          batch_size < 0

\* the exception of the draw leaves process_downloads, asyncio.run and main
DrawBatchRaises ==
    /\ phase = "loop" /\ remaining # << >>
    /\ DrawRaises(min_batch_size, max_batch_size, Len(remaining))
    /\ batch_num' = batch_num + 1
    /\ phase' = "crashed"
    /\ UNCHANGED << cfgVars, pauses, fs, urls_to_download, remaining, batch,
                    pc, result, semaphore, downloaded, skipped, failed,
                    force_redownloaded, run, pre, got, classOf, batchOf,
                    ended, started, exitPath >>

\* faulty variant: download_batch does not wait for its tasks
GatherNoWait(b, p) == TRUE

\* asyncio.gather(*tasks, return_exceptions=True) returns
GatherDone(b, p) == \A i \in b : p[i] = "done"

\* faulty variant: gather(return_exceptions=False) re-raises an exception
\* of one of its tasks
GatherRaisesTaskException(b, res) == \E i \in b : res[i] = "exc"

\* return_exceptions=True: an exception of a task is returned as its
\* result, gather raises nothing
GatherRaises(b, res) == FALSE

\* faulty variant: a result that is an exception is not counted
CountFailuresNoExceptions(b, res) ==
    Cardinality({i \in b : res[i] = "false"})

\* for result in results: if isinstance(result, Exception) or result is
\* False: self.failed += 1
CountFailures(b, res) ==
    Cardinality({i \in b : res[i] \in {"false", "exc"}})

\* faulty variant: the delay is drawn from 0 up to the larger bound
UniformFromZero(a, b) == 0 .. (IF a < b THEN b ELSE a)

\* random.uniform(a, b) = a + (b - a) * random(): a value between the two
\* bounds, whichever is the larger (delays are whole seconds here)
Uniform(a, b) == (IF a < b THEN a ELSE b) .. (IF a < b THEN b ELSE a)

\* download_batch after gather: count the failures; then the tail of the
\* loop body: if tasks remain, draw the delay and call asyncio.sleep, else
\* the loop and the session end
FinishBatch ==
    /\ phase = "gather"
    /\ GatherDone(batch, pc)
    /\ failed' = failed + CountFailures(batch, result)
    /\ IF GatherRaises(batch, result)
       THEN phase' = "crashed" /\ UNCHANGED pauses
       ELSE IF remaining # << >>
       THEN /\ phase' = "sleep"
            /\ \E delay \in Uniform(min_delay, max_delay) :
                  pauses' = Append(pauses, delay)
       ELSE phase' = "summary" /\ UNCHANGED pauses
    /\ UNCHANGED << cfgVars, fs, urls_to_download, remaining, batch, batch_num,
                    pc, result, semaphore, downloaded, skipped,
                    force_redownloaded, run, pre, got, classOf, batchOf, ended, started,
                    exitPath >>

\* await asyncio.sleep(delay) returns
Sleep ==
    /\ phase = "sleep"
    /\ phase' = "loop"
    /\ UNCHANGED << cfgVars, pauses, fs, urls_to_download, remaining, batch, batch_num,
                    pc, result, semaphore, downloaded, skipped, failed,
                    force_redownloaded, run, pre, got, classOf, batchOf, ended, started,
                    exitPath >>

(* ------------------------------- the run ------------------------------ *)
Task0(p) == [url |-> << "u" >>, path |-> p]

Manifests(n) ==
    UNION {[1..k -> {Task0(d) : d \in Dests}] : k \in 1..n}

\* (min_batch_size, max_batch_size, max_concurrent) of the runs explored
Configs == {<< 1, 1, 2 >>, << 1, 2, 1 >>, << 2, 2, 2 >>}

OldDoc == JsonKmlDoc(Ts("aware", 1))
RunContents == {Absent, Garbage, OldDoc}
RunFileSystems ==
    {[p \in AllPaths |-> IF p \in Dests THEN g[p] ELSE Absent] :
        g \in [Dests -> RunContents]}
RunIndexes == {NoIndex, [id \in {ProposalId(D1)} |-> Ts("aware", MaxT)]}

\* a manifest file: unreadable, or a sequence of lines.  A line is a
\* sequence of pieces of text: a tab, a space, a '#', or a word (a run of
\* other characters), so that strip, startswith and split can be computed.
Unreadable == [readable |-> FALSE, lines |-> << >>]
UrlFile(lines) == [readable |-> TRUE, lines |-> lines]

Tab == "\t"
IsSpace(c) == c \in {Tab, " "}

RECURSIVE LStrip(_)
LStrip(s) ==
    IF s = << >> THEN s
    ELSE IF IsSpace(Head(s)) THEN LStrip(Tail(s)) ELSE s

RECURSIVE RStrip(_)
RStrip(s) ==
    IF s = << >> THEN s
    ELSE IF IsSpace(s[Len(s)]) THEN RStrip(SubSeq(s, 1, Len(s) - 1)) ELSE s

\* str.strip()
Strip(s) == RStrip(LStrip(s))

\* str.split('\t')
RECURSIVE Split(_)
Split(s) ==
    LET tabs == {k \in DOMAIN s : s[k] = Tab}
        first == CHOOSE k \in tabs : \A j \in tabs : k <= j
    IN  IF tabs = {} THEN << s >>
        ELSE << SubSeq(s, 1, first - 1) >> \o Split(SubSeq(s, first + 1, Len(s)))

\* the text of a destination path, and the path a text names
PathText(p) == IF p = D1 THEN << "raw/7.json" >> ELSE << "raw/8.kml" >>
PathOf(text) ==
    IF text = PathText(D1) THEN D1
    ELSE IF text = PathText(D2) THEN D2
    ELSE Path("", text)

\* faulty variant: the line is split before it is stripped
LineFieldsUnstripped(line) ==
    LET parts == Split(line)
    IN  IF Strip(line) = << >> \/ Head(Strip(line)) = "#" THEN << >> ELSE parts

\* one iteration of the loop of parse_url_file up to the test of
\* len(parts): the parts of the stripped line, none for a blank line or a
\* comment
LineFields(line) ==
    LET l == Strip(line)
    IN  IF l = << >> \/ Head(l) = "#" THEN << >> ELSE Split(l)

Ignored(line) == Strip(line) = << >> \/ Head(Strip(line)) = "#"

\* the loop of parse_url_file: blank lines and comments are passed over, a
\* line that does not split into two parts is reported and skipped
ParseLines(lines) ==
    LET F[k \in 0..Len(lines)] ==
            IF k = 0 THEN << >>
            ELSE IF Ignored(lines[k]) THEN F[k - 1]
            ELSE IF Len(LineFields(lines[k])) # 2 THEN F[k - 1]
            ELSE Append(F[k - 1],
                        [url |-> Strip(LineFields(lines[k])[1]),
                         path |-> PathOf(Strip(LineFields(lines[k])[2]))])
    IN  F[Len(lines)]

\* the lines "Warning: Skipping malformed line" is printed for
Malformed(lines) ==
    {k \in DOMAIN lines :
        ~Ignored(lines[k]) /\ Len(LineFields(lines[k])) # 2}

\* the file whose lines are exactly the tasks of a manifest
LinesOf(manifest) ==
    [i \in DOMAIN manifest |->
        manifest[i].url \o << Tab >> \o PathText(manifest[i].path)]

\* an index file: not given, absent, not JSON, JSON that is no object, or
\* an object whose 'data' is a list of items; an item is an object with an
\* id and an app_updated_on, or something that is no object
NoFile == [k |-> "none", items |-> << >>]
IndexFile(k, items) == [k |-> k, items |-> items]
Item(id, ts) == [shape |-> "dict", id |-> id, ts |-> ts]
NotAnObject == [shape |-> "other", id |-> << >>, ts |-> Missing]

\* _load_timestamps: the entries kept and whether the warning is printed.
\* The loop stops at the first item whose .get raises; the entries stored
\* before it stay.
LoadIndex(file) ==
    LET items == file.items
        bad == {k \in DOMAIN items : items[k].shape # "dict"}
        stop == IF bad = {} THEN Len(items) + 1
                ELSE CHOOSE k \in bad : \A j \in bad : k <= j
        kept == {k \in 1..(stop - 1) :
                    items[k].id # << >> /\ items[k].ts \notin {Missing, Falsy}}
        ids == {items[k].id : k \in kept}
        last(id) == CHOOSE k \in kept :
                       items[k].id = id /\ \A j \in kept : items[j].id = id => j <= k
    IN  IF file.k \in {"none", "absent"}
        THEN [index |-> NoIndex, failed |-> FALSE]
        ELSE IF file.k # "dict"
        THEN [index |-> NoIndex, failed |-> TRUE]
        ELSE [index |-> [id \in ids |-> items[last(id)].ts],
              failed |-> bad # {}]

\* an index file that loads to the given entries
RECURSIVE ItemsOf(_)
ItemsOf(ts_data) ==
    IF DOMAIN ts_data = {} THEN << >>
    ELSE LET id == CHOOSE x \in DOMAIN ts_data : TRUE
         IN  << Item(id, ts_data[id]) >>
                \o ItemsOf([x \in DOMAIN ts_data \ {id} |-> ts_data[x]])
IndexFileOf(ts_data) ==
    IF DOMAIN ts_data = {} THEN NoFile ELSE IndexFile("dict", ItemsOf(ts_data))

\* (min_delay, max_delay) of a configuration: its fourth and fifth entry; a
\* configuration of three entries is run with --min-delay 1 --max-delay 1
Delays(config) ==
    IF Len(config) = 5 THEN << config[4], config[5] >> ELSE << 1, 1 >>

\* ParallelDownloader.__init__, for one configuration
Constructed(kind, config, ts_data, files) ==
    /\ warnings = << >>
    /\ content_type = kind
    /\ min_batch_size = config[1]
    /\ max_batch_size = config[2]
    /\ max_concurrent = config[3]
    /\ semaphore = config[3]
    /\ min_delay = Delays(config)[1]
    /\ max_delay = Delays(config)[2]
    /\ pauses = << >>
    /\ timestamps_data = ts_data
    /\ fs = files
    /\ pre = files
    /\ downloaded = 0 /\ skipped = 0 /\ failed = 0 /\ force_redownloaded = 0
    /\ urls_to_download = << >>
    /\ remaining = << >> /\ batch = {} /\ batch_num = 0
    /\ pc = << >> /\ result = << >>
    /\ run = 1
    /\ got = {}
    /\ classOf = << >> /\ batchOf = << >>
    /\ ended = << >>
    /\ started = << >> /\ exitPath = << >>

\* ParallelDownloader.__init__ and parse_url_file, for one configuration
\* whose manifest was read
Construct(kind, config, ts_data, manifest, files) ==
    /\ Constructed(kind, config, ts_data, files)
    /\ server = Bodies
    /\ timestamp_file = IndexFileOf(ts_data)
    /\ url_file = UrlFile(LinesOf(manifest))
    /\ urls_and_paths = manifest
    /\ phase = "start"
    /\ tracing = FALSE

Init ==
    \E kind \in {"json", "kml"}, config \in Configs, ts_data \in RunIndexes,
       manifest \in Manifests(MaxTasks), files \in RunFileSystems :
        Construct(kind, config, ts_data, manifest, files)

Worker ==
    \E i \in DOMAIN pc :
        \/ Acquire(i)
        \/ AcquireMakedirsFails(i)
        \/ RespondOk(i)
        \/ RespondStatus(i)
        \/ NetworkError(i)
        \/ BodyInvalid(i)
        \/ BodyCommitted(i)
        \/ WriteFails(i)

Next ==
    \/ FilterExistingFiles
    \/ ProcessDownloads
    \/ DrawBatch
    \/ Worker
    \/ FinishBatch
    \/ Sleep

Spec == Init /\ [][Next]_vars

(* --------------------- a second invocation of the program ------------- *)
\* The program is started again on the same manifest, index and
\* configuration: a new ParallelDownloader, the file system as the first run
\* left it.
StartSecondRun ==
    /\ phase = "summary" /\ run = 1
    /\ run' = run + 1
    /\ ended' = Append(ended, [downloaded |-> downloaded, skipped |-> skipped,
                               failed |-> failed])
    /\ downloaded' = 0 /\ skipped' = 0 /\ failed' = 0 /\ force_redownloaded' = 0
    /\ semaphore' = max_concurrent
    /\ phase' = "start"
    /\ urls_to_download' = << >>
    /\ remaining' = << >> /\ batch' = {} /\ batch_num' = 0
    /\ pc' = << >> /\ result' = << >>
    /\ started' = << >> /\ exitPath' = << >>
    /\ pre' = fs
    /\ got' = {}
    /\ classOf' = << >> /\ batchOf' = << >>
    /\ pauses' = << >>
    /\ UNCHANGED << cfgVars, fs >>

\* two runs with no Staleness Index; every destination starts absent or
\* holding a valid artifact
RerunConfigs == {<< 1, 2, 2 >>}
RerunFileSystems == {f \in RunFileSystems : \A d \in Dests : f[d] # Garbage}
InitRerun ==
    \E kind \in {"json", "kml"}, config \in RerunConfigs,
       manifest \in Manifests(MaxTasks), files \in RerunFileSystems :
        Construct(kind, config, NoIndex, manifest, files)

NextRerun == Next \/ StartSecondRun

SpecRerun == InitRerun /\ [][NextRerun]_vars

(* ------------------- the Refresh Decision Filter alone ---------------- *)
\* cached artifacts with one timestamp field set, to any kind of value
FilterDocs ==
    {Doc("dict", m, t) : m \in BOOLEAN,
                         t \in {<< a, Missing, Missing >> : a \in FieldTs}
                               \cup {<< Missing, a, Missing >> : a \in FieldTs}
                               \cup {<< Missing, Missing, a >> : a \in FieldTs}}
FilterContents == {Absent, Empty, Garbage, KmlDoc, JsonList} \cup FilterDocs

\* one destination holds any of FilterContents, the others a RunContents
FilterFileSystems ==
    {[p \in AllPaths |-> IF p \in Dests THEN g[p] ELSE Absent] :
        g \in {h \in [Dests -> FilterContents \cup RunContents] :
                 \E d \in Dests : \A e \in Dests \ {d} : h[e] \in RunContents}}

\* no index, an index with one entry, an index with an entry for every id
FilterIndexes ==
    LET ids == {ProposalId(d) : d \in Dests}
    IN  {NoIndex} \cup {[id \in {k} |-> v] : k \in ids, v \in IndexTs}
                  \cup {[id \in ids |-> v] : v \in IndexTs}

InitFilter ==
    \E kind \in {"json", "kml"}, ts_data \in FilterIndexes,
       manifest \in Manifests(MaxTasks), files \in FilterFileSystems :
        Construct(kind, << 1, 1, 1 >>, ts_data, manifest, files)

NextFilter == FilterExistingFiles

SpecFilter == InitFilter /\ [][NextFilter]_vars

(* --------------------------- main, from the CLI ----------------------- *)
\* parse_url_file: sys.exit(1) when the file cannot be opened or read, else
\* the list of tasks
ParseUrlFile ==
    /\ phase = "parse"
    /\ IF ~url_file.readable
       THEN /\ phase' = "exit1"
            /\ UNCHANGED urls_and_paths
       ELSE /\ phase' = "start"
            /\ urls_and_paths' = ParseLines(url_file.lines)
    /\ warnings' = IF ~url_file.readable THEN warnings
                   ELSE warnings \o Fill(Cardinality(Malformed(url_file.lines)),
                                         "line")
    /\ UNCHANGED << content_type, min_batch_size, max_batch_size,
                    max_concurrent, timestamps_data, url_file, tracing,
                    timestamp_file, server, min_delay, max_delay, pauses,
                    fs, urls_to_download, remaining, batch, batch_num,
                    pc, result, semaphore, downloaded, skipped, failed,
                    force_redownloaded, run, pre, got, classOf, batchOf,
                    ended, started, exitPath >>

\* the process has ended: sys.exit(1), an uncaught exception, or the end of
\* main after the summary
\* the statistics the downloader keeps are four counters; it keeps no list
\* of tasks, and the summary names no task
FailedTaskList == << >>

Exited == phase \in {"exit1", "crashed", "summary"}
ExitStatus == IF phase = "summary" THEN 0 ELSE 1

\* lines of a manifest: blank, comments, well-formed with and without
\* padding, a trailing tab, an empty first field, one and three fields
Lines ==
    { << >>, << " " >>, << "#", "c" >>, << " ", "#", "c" >>,
      << "#", "u", Tab, "raw/7.json" >>,
      << "u", Tab, "raw/7.json" >>, << "u", Tab, "raw/8.kml" >>,
      << " ", "u", " ", Tab, " ", "raw/7.json", " " >>,
      << "u", Tab, "raw/7.json", Tab >>,
      << Tab, "raw/7.json" >>,
      << "u" >>,
      << "u", Tab, "raw/7.json", Tab, "x" >> }

UrlFiles(n) ==
    {Unreadable} \cup {UrlFile(l) : l \in UNION {[1..k -> Lines] : k \in 1..n}}

\* (min_batch_size, max_batch_size, max_concurrent) given on the command
\* line: argparse takes any integers
MainConfigs == {<< 1, 2, 1 >>, << 2, 1, 1 >>}

\* nothing cached, or a valid copy at the first destination
MainFileSystems ==
    {f \in RunFileSystems : f[D2] = Absent /\ f[D1] \in {Absent, OldDoc}}

InitMain ==
    \E config \in MainConfigs, file \in UrlFiles(MaxTasks),
       files \in MainFileSystems :
        /\ Constructed("json", config, NoIndex, files)
        /\ server = Bodies
        /\ timestamp_file = NoFile
        /\ url_file = file
        /\ urls_and_paths = << >>
        /\ phase = "parse"
        /\ tracing = FALSE

NextMain == ParseUrlFile \/ DrawBatchRaises \/ Next

SpecMain == InitMain /\ [][NextMain]_vars

\* __init__, lines 35-36: if timestamp_file and os.path.exists(...):
\* self._load_timestamps()
LoadTimestamps ==
    /\ phase = "init"
    /\ LET loaded == LoadIndex(timestamp_file)
       IN  /\ timestamps_data' = loaded.index
           /\ warnings' = IF loaded.failed THEN Append(warnings, "index")
                          ELSE warnings
    /\ phase' = "parse"
    /\ UNCHANGED << content_type, min_batch_size, max_batch_size,
                    max_concurrent, urls_and_paths, url_file, tracing,
                    timestamp_file, server, min_delay, max_delay, pauses,
                    fs, urls_to_download, remaining, batch, batch_num,
                    pc, result, semaphore, downloaded, skipped, failed,
                    force_redownloaded, run, pre, got, classOf, batchOf,
                    ended, started, exitPath >>

\* items of an index file: a later and an equal timestamp for the first
\* destination's id, an item without id, one without timestamp, one that
\* is no object
IndexItems ==
    { Item(ProposalId(D1), Ts("aware", MaxT)), Item(ProposalId(D1), Ts("aware", 1)),
      Item(<< >>, Ts("aware", MaxT)), Item(ProposalId(D1), Missing),
      NotAnObject }

IndexFiles(n) ==
    {NoFile} \cup {IndexFile(k, << >>) : k \in {"absent", "notjson", "list"}}
        \cup {IndexFile("dict", items) :
                 items \in UNION {[1..k -> IndexItems] : k \in 0..n}}

\* construction up to the loading of the index, then the manifest and the
\* filter
InitIndex ==
    \E file \in IndexFiles(MaxTasks), manifest \in Manifests(MaxTasks),
       files \in RerunFileSystems :
        /\ Constructed("json", << 1, 1, 1 >>, NoIndex, files)
        /\ server = Bodies
        /\ timestamp_file = file
        /\ url_file = UrlFile(LinesOf(manifest))
        /\ urls_and_paths = << >>
        /\ phase = "init"
        /\ tracing = FALSE

NextIndex == LoadTimestamps \/ ParseUrlFile \/ FilterExistingFiles

SpecIndex == InitIndex /\ [][NextIndex]_vars

\* runs under a fair event loop: a coroutine that can go on does, every
\* request is answered or times out (ClientTimeout(total=30)), every sleep
\* returns.  max_concurrent may be 0: asyncio.Semaphore(0) is accepted.
LiveConfigs == {<< 1, 1, 1 >>, << 1, 2, 1 >>, << 2, 2, 2 >>, << 1, 2, 0 >>}

InitLive ==
    \E config \in LiveConfigs, manifest \in Manifests(MaxTasks),
       files \in MainFileSystems :
        Construct("json", config, NoIndex, manifest, files)

NextLive == Next

SpecLive == InitLive /\ [][NextLive]_vars /\ WF_vars(NextLive)

\* runs whose manifest names one destination more than once, against a
\* service that may answer the same URL with different valid bodies
DupManifests ==
    {m \in Manifests(MaxTasks) :
        \E i, j \in DOMAIN m : i # j /\ m[i].path = m[j].path}
DupConfigs == {<< 1, 1, 1 >>, << 1, 2, 2 >>}
DupBodies == Bodies \cup {JsonDoc(Ts("aware", 1))}

InitDup ==
    \E config \in DupConfigs, ts_data \in RunIndexes,
       manifest \in DupManifests, files \in RerunFileSystems :
        /\ Constructed("json", config, ts_data, files)
        /\ server = DupBodies
        /\ timestamp_file = IndexFileOf(ts_data)
        /\ url_file = UrlFile(LinesOf(manifest))
        /\ urls_and_paths = manifest
        /\ phase = "start"
        /\ tracing = FALSE

NextDup == Next

SpecDup == InitDup /\ [][NextDup]_vars

\* runs whose workers record how they left download_single
WorkerConfigs == {<< 1, 2, 2 >>}

InitWorker ==
    \E kind \in {"json", "kml"}, config \in WorkerConfigs,
       ts_data \in RunIndexes, manifest \in Manifests(MaxTasks),
       files \in RerunFileSystems :
        /\ Constructed(kind, config, ts_data, files)
        /\ server = Bodies
        /\ timestamp_file = IndexFileOf(ts_data)
        /\ url_file = UrlFile(LinesOf(manifest))
        /\ urls_and_paths = manifest
        /\ phase = "start"
        /\ tracing = TRUE

NextWorker == Next

SpecWorker == InitWorker /\ [][NextWorker]_vars

(* ======================= properties of the fetcher ==================== *)
Range(s) == {s[i] : i \in DOMAIN s}

\* the filter has run
Classified == phase # "start"

\* the manifest task at position i was put on the download list
Queued(i) == urls_and_paths[i] \in Range(urls_to_download)

\* a cached artifact or a body that is present, non-empty, complete and
\* structurally valid for the content kind
ArtifactValid(kind, c) ==
    /\ c.k = "text" /\ ~c.partial
    /\ kind = "json" => c.json # "none"
    /\ kind = "kml" => c.kml

\* the artifact the filter saw at the destination of manifest task i
Cached(i) == pre[urls_and_paths[i].path]

Indexed(i) == ProposalId(urls_and_paths[i].path) \in DOMAIN timestamps_data
IndexEntry(i) == timestamps_data[ProposalId(urls_and_paths[i].path)]

\* a valid artifact carrying timestamp T0, an index entry T1, the two
\* comparable
Comparable(i) ==
    /\ ArtifactValid(content_type, Cached(i))
    /\ Cached(i).json = "dict"
    /\ Indexed(i)
    /\ ExistingTimestamp(Cached(i)) \in ParsedTs
    /\ IndexEntry(i) \in ParsedTs
    /\ IndexEntry(i).k = ExistingTimestamp(Cached(i)).k

IndexIsLater(i) == IndexEntry(i).t > ExistingTimestamp(Cached(i)).t

CountOf(c) == Cardinality({i \in DOMAIN classOf : classOf[i] = c})

InFlight == {i \in DOMAIN pc : pc[i] \in {"request", "reading"}}

\* C1: at every moment of a run the file at each destination is what it was
\* when the run started, or the complete body of a fetch for that
\* destination that passed validation; never a partial body.
AtomicDestination ==
    \A d \in Dests :
        \/ fs[d] = pre[d]
        \/ /\ << d, fs[d] >> \in got
           /\ ArtifactValid(content_type, fs[d])

\* a fetch was committed while another worker's write failed and left its
\* truncated temporary file behind
AtomicDestinationWitness ==
    \E i, j \in DOMAIN result :
        /\ result[i] = "true"
        /\ fs[Task(i).path] # pre[Task(i).path]
        /\ result[j] = "exc"
        /\ fs[TempPath(Task(j).path)].partial
        /\ fs[Task(j).path] = pre[Task(j).path]

\* C2: the workers holding a slot (the requests in flight) never number
\* more than max_concurrent, whatever the batch size.
ConcurrencyBound ==
    /\ Cardinality(InFlight) <= max_concurrent
    /\ semaphore >= 0

\* a batch larger than max_concurrent, all slots taken, a worker waiting
ConcurrencyBoundWitness ==
    /\ Cardinality(batch) > max_concurrent
    /\ Cardinality(InFlight) = max_concurrent
    /\ \E i \in batch : pc[i] = "created"

\* C3: a valid cached artifact with timestamp T0 and an index entry T1
\* strictly later than T0 is classified force-refresh: queued for download
\* and counted force-refreshed, not skipped.
StalenessOverride ==
    Classified =>
        \A i \in DOMAIN classOf :
            (Comparable(i) /\ IndexIsLater(i)) =>
                /\ classOf[i] = "force"
                /\ Queued(i)
                /\ force_redownloaded = CountOf("force")
                /\ force_redownloaded >= 1

StalenessOverrideWitness ==
    /\ phase = "filtered"
    /\ \E i \in DOMAIN classOf :
          Comparable(i) /\ IndexIsLater(i) /\ classOf[i] = "force"

\* a valid artifact with none of the recognised timestamp fields, whose id
\* the index knows
NoTimestampCase(i) ==
    /\ ArtifactValid(content_type, Cached(i))
    /\ Cached(i).ts = NoTs
    /\ Indexed(i)

InvalidCacheIsFetch ==
    Classified =>
        \A i \in DOMAIN classOf :
            ~ArtifactValid(content_type, Cached(i)) =>
                (classOf[i] = "fetch" /\ Queued(i))

\* C6: a valid cached artifact whose id has no entry in the index (the
\* index may be empty) is classified skip: counted skipped, not queued.
NoEntrySkips ==
    Classified =>
        \A i \in DOMAIN classOf :
            (ArtifactValid(content_type, Cached(i)) /\ ~Indexed(i)) =>
                /\ classOf[i] = "skip"
                /\ ~Queued(i)
                /\ skipped = CountOf("skip")
                /\ skipped >= 1

\* the index has entries, none of them for this task's id, and the artifact
\* carries a timestamp
NoEntrySkipsWitness ==
    /\ phase = "filtered"
    /\ DOMAIN timestamps_data # {}
    /\ \E i \in DOMAIN classOf :
          /\ ArtifactValid(content_type, Cached(i)) /\ ~Indexed(i)
          /\ ExistingTimestamp(Cached(i)) \in ParsedTs
          /\ classOf[i] = "skip"

\* C7: for a valid cached artifact with timestamp T0 and an index entry T1,
\* the task is force-refresh exactly when T1 is strictly later than T0, and
\* skip when T1 equals T0 or is earlier.
StrictlyLaterOnly ==
    Classified =>
        \A i \in DOMAIN classOf :
            Comparable(i) =>
                /\ classOf[i] = "force" <=> IndexIsLater(i)
                /\ ~IndexIsLater(i) => (classOf[i] = "skip" /\ ~Queued(i))

\* equal timestamps: skip
StrictlyLaterOnlyWitness ==
    /\ phase = "filtered"
    /\ \E i \in DOMAIN classOf :
          /\ Comparable(i)
          /\ IndexEntry(i).t = ExistingTimestamp(Cached(i)).t
          /\ classOf[i] = "skip"

\* the second run classified every task skip and started no worker
AllSkipped ==
    /\ \A i \in DOMAIN classOf : classOf[i] = "skip"
    /\ urls_to_download = << >>
    /\ pc = << >>
    /\ downloaded = 0 /\ failed = 0

BatchesSequential ==
    \A i, j \in DOMAIN pc :
        (batchOf[i] >= 1 /\ batchOf[j] > batchOf[i]) => pc[i] = "done"

\* a worker of the second batch is in flight after the first batch failed
BatchesSequentialWitness ==
    \E i, j \in DOMAIN pc :
        /\ batchOf[i] = 1 /\ result[i] \in {"false", "exc"}
        /\ batchOf[j] = 2 /\ pc[j] = "request"

\* C10: a worker holds a slot exactly from before its request until it
\* ends, on every exit path; when a batch has finished all slots are free.
NoSlotLeak ==
    /\ semaphore + Cardinality(InFlight) = max_concurrent
    /\ phase \in {"sleep", "loop", "summary"} => semaphore = max_concurrent

\* the run ended with workers that failed on different exit paths
NoSlotLeakWitness ==
    /\ phase = "summary"
    /\ \E i, j \in DOMAIN result : result[i] = "false" /\ result[j] = "exc"
    /\ semaphore = max_concurrent


\* the number of elements of s equal to v
Count(s, v) == Cardinality({k \in DOMAIN s : s[k] = v})

\* this step draws a batch
Draws == batch_num' = batch_num + 1 /\ phase' = "gather"

\* C11: with 1 <= min_batch_size <= max_batch_size, a batch drawn from a
\* remaining pool of r tasks has a size in [min(min_batch_size, r),
\* min(max_batch_size, r)]; when r < min_batch_size it takes all r tasks and
\* is the final batch.
BatchSizeBounds ==
    [][(Draws /\ 1 <= min_batch_size /\ min_batch_size <= max_batch_size) =>
        LET r == Len(remaining)
            n == Cardinality(batch')
        IN  /\ Min(min_batch_size, r) <= n
            /\ n <= Min(max_batch_size, r)
            /\ n = Len(remaining) - Len(remaining')
            /\ r < min_batch_size => (n = r /\ remaining' = << >>)]_vars

\* a batch smaller than min_batch_size took all that was left
BatchSizeBoundsWitness ==
    /\ phase = "gather"
    /\ Cardinality(batch) < min_batch_size
    /\ Cardinality(batch) = Len(urls_to_download)
    /\ remaining = << >>

\* the loop of process_downloads has begun
Scheduled == phase \in {"loop", "gather", "sleep", "summary"}

\* C12: the batches partition the download list as a multiset: every queued
\* task is dispatched in exactly one batch, none twice, and none is left
\* when the loop ends.
BatchesPartitionQueue ==
    Scheduled =>
        /\ \A v \in Range(urls_to_download) \cup Range(started)
                    \cup Range(remaining) :
              Count(started, v) + Count(remaining, v)
                  = Count(urls_to_download, v)
        /\ DOMAIN batchOf = DOMAIN started
        /\ \A i \in DOMAIN started : batchOf[i] \in 1..batch_num
        /\ phase = "summary" =>
              remaining = << >> /\ Len(started) = Len(urls_to_download)

\* two identical manifest entries were dispatched in different batches
BatchesPartitionQueueWitness ==
    /\ phase = "summary"
    /\ \E i, j \in DOMAIN started :
          /\ started[i] = started[j]
          /\ batchOf[i] # batchOf[j]

\* in this step coroutine i leaves download_single on the given path
Leaves(i, how) == exitPath[i].how = "none" /\ exitPath'[i].how = how

Is2xx(status) == status \in 200..299

\* the class the filter gave to the tasks equal to t
ClassOfTask(t) ==
    classOf[CHOOSE j \in DOMAIN urls_and_paths : urls_and_paths[j] = t]

\* C13: a response with a non-2xx status ends the task failed, releases its
\* slot and leaves every file, the destination included, as it was.
Non2xxFails ==
    [][\A i \in DOMAIN exitPath :
          (Leaves(i, "status") /\ ~Is2xx(exitPath'[i].status)) =>
              /\ pc[i] = "request" /\ pc'[i] = "done"
              /\ result'[i] = "false"
              /\ semaphore' = semaphore + 1
              /\ fs' = fs
              /\ downloaded' = downloaded]_vars

\* a force-refresh task got a 404 and its stale copy is still in place
Non2xxFailsWitness ==
    \E i \in DOMAIN exitPath :
        /\ exitPath[i] = Exit("status", 404)
        /\ ClassOfTask(Task(i)) = "force"
        /\ result[i] = "false"
        /\ fs[Task(i).path] = OldDoc
        /\ semaphore = max_concurrent

\* C14 as stated: every 2xx response has its body read and validated, and a
\* body that passes validation is committed and the task ends fetched.
Any2xxCommitsValidBody ==
    \A i \in DOMAIN exitPath :
        (exitPath[i].how # "none" /\ Is2xx(exitPath[i].status)) =>
            /\ exitPath[i].how \in {"commit", "invalid"}
            /\ exitPath[i].how = "commit" <=> result[i] = "true"

\* C14: a response with status 200 has its body read and validated; a body
\* that was read and passes validation is committed unless the write or the
\* rename raises, and the task ends fetched exactly when it was committed.
\* Any other status, the other 2xx included, ends the task failed with no
\* body read.
Status200CommitsValidBody ==
    [][\A i \in DOMAIN exitPath :
          /\ (exitPath[i].how = "none" /\ exitPath'[i].how # "none"
                /\ exitPath'[i].status = 200) =>
                /\ pc[i] = "reading"
                /\ exitPath'[i].how \in {"commit", "invalid", "write", "network"}
          /\ Leaves(i, "commit") =>
                /\ exitPath'[i].status = 200
                /\ result'[i] = "true"
                /\ downloaded' = downloaded + 1
                /\ BodyValid(content_type, fs'[Task(i).path])
                /\ << Task(i).path, fs'[Task(i).path] >> \in got'
                /\ ~Exists(fs', TempPath(Task(i).path))
          /\ (result[i] = "none" /\ result'[i] = "true") => Leaves(i, "commit")
          /\ (Leaves(i, "status") /\ Is2xx(exitPath'[i].status)) =>
                /\ pc[i] = "request"
                /\ result'[i] = "false"
                /\ fs' = fs]_vars

\* one task was refused on a 204, another fetched on a 200
Status200Witness ==
    \E i, j \in DOMAIN exitPath :
        /\ exitPath[i] = Exit("status", 204) /\ result[i] = "false"
        /\ exitPath[j] = Exit("commit", 200) /\ result[j] = "true"
        /\ fs[Task(j).path] # pre[Task(j).path]

\* C15: a 200 response whose body fails validation ends the task failed;
\* no temporary file is written and the destination keeps its state, and a
\* destination never changes to content the validation rejects.
InvalidBodyNeverWritten ==
    [][/\ \A i \in DOMAIN exitPath :
            Leaves(i, "invalid") =>
                /\ result'[i] = "false"
                /\ fs' = fs
                /\ semaphore' = semaphore + 1
                /\ downloaded' = downloaded
       /\ \A d \in Dests :
            fs'[d] # fs[d] => ArtifactValid(content_type, fs'[d])]_vars

\* a body was rejected; the old copy is in place and no temp file exists
InvalidBodyWitness ==
    \E i \in DOMAIN exitPath :
        /\ exitPath[i] = Exit("invalid", 200)
        /\ result[i] = "false"
        /\ fs[Task(i).path] = OldDoc
        /\ ~Exists(fs, TempPath(Task(i).path))

\* some coroutine committed a body to destination d
CommittedTo(d) ==
    \E j \in DOMAIN result : result[j] = "true" /\ Task(j).path = d

\* C16: when the write of the temporary file or the rename raises, the task
\* ends failed and the step leaves the destination as it was; a destination
\* no fetch was committed to is exactly as before the run, and no
\* destination is ever truncated.
WriteFailureKeepsDestination ==
    /\ [][\A i \in DOMAIN exitPath :
            Leaves(i, "write") =>
                /\ result'[i] \in {"false", "exc"}
                /\ fs'[Task(i).path] = fs[Task(i).path]
                /\ downloaded' = downloaded
                /\ semaphore' = semaphore + 1]_vars
    /\ [](\A d \in Dests :
            /\ ~CommittedTo(d) => fs[d] = pre[d]
            /\ ~fs[d].partial)

\* a write failed half way and the cleanup failed too: the truncated
\* temporary file is there, the old copy at the destination is untouched
WriteFailureWitness ==
    \E i \in DOMAIN exitPath :
        /\ exitPath[i] = Exit("write", 200)
        /\ result[i] = "exc"
        /\ fs[TempPath(Task(i).path)].partial
        /\ fs[Task(i).path] = OldDoc
        /\ phase = "summary" /\ failed >= 1

\* how far a coroutine has come
Rank(p) ==
    CASE p = "created" -> 1 [] p = "request" -> 2 [] p = "reading" -> 3
      [] p = "done" -> 4

\* no coroutine goes back, and one that has ended keeps its result
NoBackwardStep ==
    \A i \in DOMAIN pc :
        /\ Rank(pc'[i]) >= Rank(pc[i])
        /\ pc[i] = "done" => (pc'[i] = "done" /\ result'[i] = result[i])
        /\ started'[i] = started[i]

Fails(i) == result[i] = "none" /\ result'[i] \in {"false", "exc"}

\* C18: a failing task is marked failed and touches nothing of the others:
\* the step changes no other coroutine, no destination and nothing of the
\* scheduler; no failure ends the run, so when it ends every queued task
\* was dispatched and came to its own outcome, and each failure is counted.
FailureIsolation ==
    /\ [][\A i \in DOMAIN result :
            Fails(i) =>
                /\ pc'[i] = "done"
                /\ \A j \in DOMAIN result \ {i} :
                      pc'[j] = pc[j] /\ result'[j] = result[j]
                /\ \A d \in Dests : fs'[d] = fs[d]
                /\ phase' = phase /\ remaining' = remaining
                /\ started' = started /\ batch' = batch]_vars
    /\ [](/\ phase # "crashed"
          /\ phase = "summary" =>
                /\ Len(started) = Len(urls_to_download)
                /\ \A i \in DOMAIN pc : pc[i] = "done"
                /\ failed = Cardinality({i \in DOMAIN result :
                                            result[i] \in {"false", "exc"}}))

\* an exception escaped one coroutine of a batch, the other one of the same
\* batch fetched its file, and the run reached its summary
FailureIsolationWitness ==
    /\ phase = "summary"
    /\ \E i, j \in DOMAIN result :
          /\ batchOf[i] = batchOf[j]
          /\ result[i] = "exc"
          /\ result[j] = "true"
          /\ fs[Task(j).path] # pre[Task(j).path]
    /\ failed = 1 /\ downloaded = 1

\* C19: a task is classified once, into one of skip, force and fetch, and
\* keeps its class; a skip task is never on the download list, never gets a
\* coroutine and its destination is never written; no coroutine goes back.
TaskStateMachine ==
    /\ [](Classified =>
            /\ DOMAIN classOf = DOMAIN urls_and_paths
            /\ \A j \in DOMAIN classOf :
                  /\ classOf[j] \in {"skip", "force", "fetch"}
                  /\ classOf[j] = "skip" =>
                        /\ urls_and_paths[j] \notin
                             Range(urls_to_download) \cup Range(remaining)
                                 \cup Range(started)
                        /\ fs[urls_and_paths[j].path] = pre[urls_and_paths[j].path]
                        /\ ~Exists(fs, TempPath(urls_and_paths[j].path))
                  /\ classOf[j] # "skip" =>
                        urls_and_paths[j] \in Range(urls_to_download))
    /\ [][/\ Classified => classOf' = classOf
          /\ NoBackwardStep]_vars

\* the run ended: one task was skipped, the other went through a coroutine
TaskStateMachineWitness ==
    /\ phase = "summary"
    /\ \E j, k \in DOMAIN classOf :
          /\ classOf[j] = "skip"
          /\ classOf[k] = "fetch"
    /\ \E i \in DOMAIN result : result[i] = "true"
    /\ skipped = 1 /\ downloaded = 1

\* C20 as stated: the run exits with a non-zero status only when the
\* manifest cannot be read.
NonZeroExitOnlyUnreadable ==
    (Exited /\ ExitStatus # 0) => ~url_file.readable

\* the manifest was read and parsed
Parsed == url_file.readable /\ phase \notin {"init", "parse"}

\* the positions of the lines of the manifest that satisfy P
LinesWhere(P(_)) == {k \in DOMAIN url_file.lines : P(url_file.lines[k])}

LineWarnings == Count(warnings, "line")

\* a line as it stands in the file: only white space, beginning with '#',
\* holding exactly two tab-separated fields
RawBlank(line) == \A k \in DOMAIN line : IsSpace(line[k])
RawComment(line) == line # << >> /\ Head(line) = "#"
RawTwoFields(line) ==
    ~RawBlank(line) /\ ~RawComment(line) /\ Count(line, Tab) = 1
RawOther(line) ==
    ~RawBlank(line) /\ ~RawComment(line) /\ Count(line, Tab) # 1

\* C21 as stated: one task per line with exactly two tab-separated fields,
\* one warning for every other line that is neither blank nor a comment.
ManifestToleranceRawLines ==
    Parsed =>
        /\ Len(urls_and_paths) = Cardinality(LinesWhere(RawTwoFields))
        /\ LineWarnings = Cardinality(LinesWhere(RawOther))

\* a line once its leading and trailing white space, tabs included, is
\* removed
TrimmedEmpty(line) == \A k \in DOMAIN line : IsSpace(line[k])
TrimmedComment(line) ==
    \E k \in DOMAIN line :
        line[k] = "#" /\ \A j \in 1..(k - 1) : IsSpace(line[j])
TrimmedTwoFields(line) ==
    ~TrimmedEmpty(line) /\ ~TrimmedComment(line)
        /\ Count(Strip(line), Tab) = 1
TrimmedOther(line) ==
    ~TrimmedEmpty(line) /\ ~TrimmedComment(line)
        /\ Count(Strip(line), Tab) # 1

\* the k-th smallest element of a set of numbers
RECURSIVE Nth(_, _)
Nth(S, k) ==
    LET m == CHOOSE x \in S : \A y \in S : x <= y
    IN  IF k = 1 THEN m ELSE Nth(S \ {m}, k - 1)

\* C21: judged after leading and trailing white space (tabs included) is
\* removed from the line: one task per line with exactly two tab-separated
\* fields, in manifest order, each field trimmed; empty lines and lines
\* beginning with '#' give nothing; every other line gives one warning and
\* no task; a readable manifest never ends the run at the parse.
ManifestTolerance ==
    /\ (url_file.readable /\ phase # "parse") => phase # "exit1"
    /\ Parsed =>
         /\ Len(urls_and_paths) = Cardinality(LinesWhere(TrimmedTwoFields))
         /\ LineWarnings = Cardinality(LinesWhere(TrimmedOther))
         /\ \A n \in DOMAIN urls_and_paths :
               LET line == Strip(url_file.lines[Nth(LinesWhere(TrimmedTwoFields), n)])
                   tab == CHOOSE k \in DOMAIN line : line[k] = Tab
               IN  /\ urls_and_paths[n].url = Strip(SubSeq(line, 1, tab - 1))
                   /\ PathText(urls_and_paths[n].path)
                         = Strip(SubSeq(line, tab + 1, Len(line)))

\* a manifest with a line ending in a tab and a line of three fields gave
\* one task and one warning, and the run went on to its summary
ManifestToleranceWitness ==
    /\ phase = "summary"
    /\ url_file.lines = << << "u", Tab, "raw/7.json", Tab, "x" >>,
                           << "u", Tab, "raw/7.json", Tab >> >>
    /\ Len(urls_and_paths) = 1
    /\ warnings = << "line" >>
    /\ downloaded + skipped + failed = 1

\* _load_timestamps printed its warning: loading the index failed
IndexLoadFailed == "index" \in Range(warnings)

\* C22 as stated: after a failed load the index has no entries, and no task
\* is classified force-refresh.
FailedLoadLeavesIndexEmpty ==
    IndexLoadFailed =>
        /\ DOMAIN timestamps_data = {}
        /\ Classified => \A j \in DOMAIN classOf : classOf[j] # "force"

\* the coroutines that ended with the given results
Ended(results) == {i \in DOMAIN result : result[i] \in results}

\* C23 as stated: at run end the report's failed-task list holds exactly
\* the tasks whose fetch failed, and is as long as the failed counter.
ReportListsFailedTasks ==
    phase = "summary" =>
        /\ Len(FailedTaskList) = failed
        /\ Range(FailedTaskList) = {Task(i) : i \in Ended({"false", "exc"})}

\* C24 as stated: at run end force_redownloaded is the number of
\* force-refresh tasks whose fetch was committed.
ForceCountedOnCommit ==
    phase = "summary" =>
        force_redownloaded =
            Cardinality({i \in Ended({"true"}) : ClassOfTask(Task(i)) = "force"})

\* C25: every step adds to downloaded exactly the number of coroutines that
\* commit in it, so downloaded is always the number of committed bodies;
\* the step that ends a batch adds to failed exactly the number of the
\* batch's coroutines that did not commit, and nothing else changes failed.
CountersRaceFree ==
    /\ [](downloaded = Cardinality(Ended({"true"})))
    /\ [](phase \in {"loop", "sleep", "summary"} =>
             failed = Cardinality(Ended({"false", "exc"})))
    /\ [][/\ downloaded' - downloaded =
               Cardinality({i \in DOMAIN result :
                               result[i] # "true" /\ result'[i] = "true"})
          /\ IF phase = "gather" /\ phase' # "gather"
             THEN failed' - failed =
                    Cardinality({i \in batch : result[i] # "true"})
             ELSE failed' = failed]_vars

\* a batch of two ended, one body committed and one request refused
CountersRaceFreeWitness ==
    /\ phase = "summary"
    /\ Cardinality(batch) = 2
    /\ \E i, j \in batch : result[i] = "true" /\ result[j] = "false"
    /\ downloaded = 1 /\ failed = 1

\* C26 as stated: once the filter pass of the next run is over, no
\* temporary sibling file of an earlier run is left next to the destination
\* of any manifest task.
FilterCleansTempFiles ==
    (run = 2 /\ phase = "filtered") =>
        \A j \in DOMAIN urls_and_paths :
            ~Exists(fs, TempPath(urls_and_paths[j].path))

\* C27 as stated: when a run with a readable manifest has ended, every
\* manifest task is counted in exactly one of downloaded, skipped, failed.
AccountingAtRunEnd ==
    (Exited /\ url_file.readable) =>
        /\ downloaded + failed = Len(urls_to_download)
        /\ downloaded + skipped + failed = Len(urls_and_paths)
        /\ force_redownloaded <= Len(urls_to_download)

\* C29 as stated: every iteration of the batch loop draws its size from a
\* non-empty range of sizes, whatever integers the command line gave.
BatchRangeNeverEmpty ==
    (phase = "loop" /\ remaining # << >>) =>
        /\ Min(min_batch_size, Len(remaining))
              <= Min(max_batch_size, Len(remaining))
        /\ phase # "crashed"

\* the run has finished: the loop was left with the pool empty and every
\* queued task has a coroutine that came to its outcome
Finished ==
    /\ phase = "summary"
    /\ remaining = << >>
    /\ Len(started) = Len(urls_to_download)
    /\ \A i \in DOMAIN pc :
          pc[i] = "done" /\ result[i] \in {"true", "false", "exc"}

\* C28 as stated: with every request completing and 1 <= min_batch_size <=
\* max_batch_size, every run eventually finishes.
Terminates ==
    (1 <= min_batch_size /\ min_batch_size <= max_batch_size) => <>Finished

\* C28: with every request completing, 1 <= min_batch_size <=
\* max_batch_size and max_concurrent >= 1, every run eventually finishes.
TerminatesWithASlot ==
    (1 <= min_batch_size /\ min_batch_size <= max_batch_size
        /\ max_concurrent >= 1) => <>Finished

\* a batch of two went through a gate of one slot and the run finished
TerminatesWitness ==
    /\ Finished
    /\ max_concurrent = 1
    /\ Cardinality(batch) = 2
    /\ downloaded + failed = 2

\* in this step coroutine i commits its body
Commits(i) == result[i] = "none" /\ result'[i] = "true"

\* C30: tasks that share a destination are fetched independently.  The
\* destination changes only in the step in which one of them commits, and
\* then to the complete validated body of that coroutine, so it ends as the
\* body committed last.  The write and the rename of a coroutine are one
\* step: no other coroutine runs in between, and a temporary file that
\* exists is the leftover of a coroutine that has ended.  A step in which a
\* coroutine fails leaves the destination as it is.
DuplicateDestinations ==
    /\ [][/\ \A d \in Dests :
                fs'[d] # fs[d] =>
                    \E i \in DOMAIN result : Commits(i) /\ Task(i).path = d
          /\ \A i \in DOMAIN result :
                /\ Commits(i) =>
                      LET d == Task(i).path
                      IN  /\ ArtifactValid(content_type, fs'[d])
                          /\ << d, fs'[d] >> \in got'
                          /\ got' # got => << d, fs'[d] >> \in got' \ got
                          /\ ~Exists(fs', TempPath(d))
                /\ Fails(i) => fs'[Task(i).path] = fs[Task(i).path]
          /\ Cardinality({i \in DOMAIN pc : pc'[i] # pc[i]}) <= 1]_vars
    /\ [](\A d \in Dests :
            Exists(fs, TempPath(d)) =>
                \E j \in DOMAIN result : result[j] = "exc" /\ Task(j).path = d)
    /\ [](\A i, j \in DOMAIN started :
            (i # j /\ started[i] = started[j]) =>
                Count(urls_to_download, started[i]) >= 2)

\* two coroutines of one batch committed different bodies to the same
\* destination; it holds one of the two, whole
DuplicateDestinationsWitness ==
    \E i, j \in DOMAIN result :
        /\ i # j /\ batchOf[i] = batchOf[j]
        /\ Task(i).path = Task(j).path
        /\ result[i] = "true" /\ result[j] = "true"
        /\ Cardinality({c \in server : << Task(i).path, c >> \in got}) = 2
        /\ << Task(i).path, fs[Task(i).path] >> \in got
        /\ fs[Task(i).path] = JsonBody


(* ------------- the Fetch Worker against the Cache Validator ----------- *)
\* runs of a downloader constructed with any content type (the constructor
\* lower-cases whatever string it is given; "txt" stands for every type
\* other than 'json' and 'kml'), against a service that may also answer
\* with an empty or a blank body
Kinds == {"json", "kml", "txt"}
KindBodies == Bodies \cup {Empty, Blank}

InitKinds ==
    \E kind \in Kinds, manifest \in Manifests(MaxTasks),
       files \in RerunFileSystems :
        /\ Constructed(kind, << 1, 2, 2 >>, NoIndex, files)
        /\ server = KindBodies
        /\ timestamp_file = IndexFileOf(NoIndex)
        /\ url_file = UrlFile(LinesOf(manifest))
        /\ urls_and_paths = manifest
        /\ phase = "start"
        /\ tracing = TRUE

NextKinds == Next

SpecKinds == InitKinds /\ [][NextKinds]_vars

\* the file system f with the destination holding exactly the body
Holding(f, output_path, content) == [f EXCEPT ![output_path] = content]

\* filter_existing_files would find the destination present, non-empty and
\* valid if it held exactly the body
CacheValid(kind, output_path, content) ==
    /\ FileExists(Holding(fs, output_path, content), output_path)
    /\ ValidateFileContent(Holding(fs, output_path, content), kind, output_path)

\* C31: the Fetch Worker accepts a body exactly when the Cache Validator
\* would classify a destination holding that body as valid: every body a
\* worker has accepted is one the validator accepts, and while a worker reads
\* a response, each body the service may send passes the worker's validation
\* if and only if it passes the validator's.
WorkerValidatesAsCacheValidator ==
    /\ \A g \in got : CacheValid(content_type, g[1], g[2])
    /\ \A i \in DOMAIN pc :
          pc[i] = "reading" =>
             \A content \in server :
                BodyValid(content_type, content)
                   <=> CacheValid(content_type, Task(i).path, content)

\* a valid cached artifact with a recognised timestamp field, an index entry
\* for its id, and no comparable pair of timestamps: one of the two values
\* is no ISO timestamp, or one has a UTC offset and the other has none
ExtractionFails(i) ==
    /\ ArtifactValid(content_type, Cached(i))
    /\ Cached(i).json = "dict"
    /\ Indexed(i)
    /\ ExistingTimestamp(Cached(i)) # Missing
    /\ ~ /\ ExistingTimestamp(Cached(i)) \in ParsedTs
         /\ IndexEntry(i) \in ParsedTs
         /\ IndexEntry(i).k = ExistingTimestamp(Cached(i)).k

\* C32: when a valid cached artifact has a recognised timestamp field and
\* its id has an index entry, but no comparable timestamp can be extracted,
\* the task is classified force-refresh (queued), never skip.
UnparseableTimestampForces ==
    Classified =>
        \A i \in DOMAIN classOf :
            ExtractionFails(i) => (classOf[i] = "force" /\ Queued(i))

(* -------------------------- the inter-batch pause --------------------- *)
\* runs with the delays given on the command line; --min-delay may exceed
\* --max-delay (argparse checks neither)
PauseConfigs ==
    {<< 1, 1, 1, 1, 2 >>, << 1, 1, 2, 2, 1 >>, << 1, 2, 2, 0, 0 >>}

InitPause ==
    \E config \in PauseConfigs, manifest \in Manifests(MaxTasks),
       files \in MainFileSystems :
        Construct("json", config, NoIndex, manifest, files)

NextPause == Next

SpecPause == InitPause /\ [][NextPause]_vars

\* one pause after every batch but the last: the scheduler sleeps exactly
\* when tasks remain after a batch, once, and every batch after the first
\* starts after the pause that follows the batch before it
OnePausePerGap ==
    /\ phase = "gather" => Len(pauses) = batch_num - 1
    /\ phase = "sleep" => (Len(pauses) = batch_num /\ remaining # << >>)
    /\ phase = "loop" => (Len(pauses) = batch_num /\ remaining # << >>)
    /\ (phase = "summary" /\ batch_num >= 1) =>
          (Len(pauses) = batch_num - 1 /\ remaining = << >>)
    /\ (phase = "summary" /\ batch_num = 0) => pauses = << >>

\* C33 (as claimed): after a batch the scheduler sleeps once, for a
\* duration within [min_delay, max_delay], if and only if tasks remain; no
\* pause follows the final batch and a pause lies between any two batches.
PauseWithinMinMax ==
    /\ OnePausePerGap
    /\ \A k \in DOMAIN pauses :
          min_delay <= pauses[k] /\ pauses[k] <= max_delay

\* C33 (amended): the same, the duration lying between min_delay and
\* max_delay in whichever order the two are given.
PauseBetweenDelayBounds ==
    /\ OnePausePerGap
    /\ \A k \in DOMAIN pauses :
          \/ min_delay <= pauses[k] /\ pauses[k] <= max_delay
          \/ max_delay <= pauses[k] /\ pauses[k] <= min_delay

\* a run of two batches ended: one pause, taken between them, with
\* --min-delay above --max-delay
PauseWitness ==
    /\ phase = "summary"
    /\ batch_num = 2
    /\ Len(pauses) = 1
    /\ min_delay > max_delay

\* once a worker exists, every manifest task has its class, the one the
\* filter computes on the file system the run started with; in particular
\* tasks that share a missing destination are all classified fetch
ClassifiedBeforeFetch ==
    pc # << >> =>
        /\ Classified
        /\ DOMAIN classOf = DOMAIN urls_and_paths
        /\ \A i \in DOMAIN classOf :
              classOf[i] = Branch(pre, content_type, timestamps_data,
                                  urls_and_paths[i].path)
        /\ \A i, j \in DOMAIN classOf :
              (/\ i # j
               /\ urls_and_paths[i].path = urls_and_paths[j].path
               /\ ~Exists(pre, urls_and_paths[i].path)) =>
                  /\ classOf[i] = "fetch" /\ classOf[j] = "fetch"
                  /\ Queued(i) /\ Queued(j)

\* C34: the classification phase is read-only and complete before any
\* fetch: the step of filter_existing_files changes no file and not the
\* Staleness Index, and when the first Fetch Worker starts every manifest
\* task has been classified against the file system as it was before the
\* run (two tasks with the same missing destination are both fetch).
ReadOnlyClassification ==
    /\ [](ClassifiedBeforeFetch)
    /\ [][(phase = "start" /\ phase' # "start") =>
             /\ fs' = fs /\ fs' = pre
             /\ timestamps_data' = timestamps_data
             /\ pc' = << >>
             /\ DOMAIN classOf' = DOMAIN urls_and_paths]_vars

\* two tasks share a destination that was missing; the first has fetched
\* it, the second, classified fetch before that, is about to start
ReadOnlyClassificationWitness ==
    /\ Len(urls_and_paths) = 2
    /\ urls_and_paths[1].path = urls_and_paths[2].path
    /\ ~Exists(pre, urls_and_paths[1].path)
    /\ Exists(fs, urls_and_paths[1].path)
    /\ classOf = << "fetch", "fetch" >>
    /\ batch_num = 2 /\ pc[2] = "created"

\* C35: a worker whose temp-file write or rename raised removes the
\* temporary sibling and ends failed (it returns False), so when the run has
\* ended no temporary sibling exists next to a destination unless it was
\* there before the run.
TempFilesRemoved ==
    /\ \A i \in DOMAIN pc :
          exitPath[i].how = "write" =>
             /\ result[i] = "false"
             /\ \/ ~Exists(fs, TempPath(Task(i).path))
                \/ \E j \in DOMAIN pc : j # i /\ Task(j).path = Task(i).path
    /\ phase = "summary" =>
          \A d \in Dests : Exists(fs, TempPath(d)) => Exists(pre, TempPath(d))

\* a filename without its extension (its last piece)
Stem(filename) == SubSeq(filename, 1, Len(filename) - 1)

\* C36: the resource id under which a task is looked up in the Staleness
\* Index is the filename of its destination with the extension stripped,
\* for a structured and for a geometry destination alike.
ResourceIdIsFilenameStem ==
    Classified =>
        \A i \in DOMAIN classOf :
            LET output_path == urls_and_paths[i].path
            IN  /\ ProposalId(output_path) = Stem(Basename(output_path))
                /\ Indexed(i) <=> Stem(Basename(output_path)) \in DOMAIN timestamps_data

(* ------------- cached artifacts with several timestamp fields --------- *)
\* a JSON object that carries any combination of the three recognised
\* fields, each with any kind of value (it also contains a KML marker, so
\* it is valid for both content types)
FieldDocs == {Doc("dict", TRUE, << a, b, c >>) : a, b, c \in FieldTs}

FieldFileSystems ==
    {[p \in AllPaths |-> IF p = D1 THEN c ELSE Absent] : c \in FieldDocs}

FieldIndexes == {[id \in {ProposalId(D1)} |-> v] : v \in IndexTs}

InitFields ==
    \E kind \in {"json", "kml"}, ts_data \in FieldIndexes,
       manifest \in Manifests(MaxTasks), files \in FieldFileSystems :
        Construct(kind, << 1, 1, 1 >>, ts_data, manifest, files)

NextFields == FilterExistingFiles

SpecFields == InitFields /\ [][NextFields]_vars

\* the recognised fields the artifact contains, by their place in the order
\* app_updated_on, Application Updated On, updated_on
PresentFields(c) == {k \in 1..3 : c.ts[k] # Missing}

FirstPresent(c) ==
    CHOOSE k \in PresentFields(c) : \A j \in PresentFields(c) : k <= j

\* the artifact with every recognised field after the first present one
\* taken out
OnlyFirstField(c) ==
    [c EXCEPT !.ts = [k \in 1..3 |-> IF k = FirstPresent(c) THEN c.ts[k]
                                     ELSE Missing]]

SeveralFields(i) ==
    /\ ArtifactValid(content_type, Cached(i))
    /\ Indexed(i)
    /\ Cardinality(PresentFields(Cached(i))) >= 2

\* C37: for a cached artifact with more than one recognised timestamp
\* field, the class is decided by the value of the first present field in
\* the order app_updated_on, Application Updated On, updated_on: it is
\* force-refresh exactly when that value is truthy and the comparison of the
\* index entry with it says so, skip otherwise, and it is the class the same
\* artifact without its later fields gets.
FirstPresentFieldWins ==
    Classified =>
        \A i \in DOMAIN classOf :
            SeveralFields(i) =>
                LET output_path == urls_and_paths[i].path
                    first == Cached(i).ts[FirstPresent(Cached(i))]
                IN  /\ classOf[i] = "force" <=>
                          (first # Falsy /\ CompareParsed(IndexEntry(i), first))
                    /\ classOf[i] # "force" => classOf[i] = "skip"
                    /\ classOf[i] =
                          Branch([pre EXCEPT ![output_path] = OnlyFirstField(Cached(i))],
                                 content_type, timestamps_data, output_path)

\* the first field equals the index entry, a later field is older than the
\* index entry: skip
FirstPresentFieldWinsWitness ==
    /\ phase = "filtered"
    /\ \E i \in DOMAIN classOf :
          /\ SeveralFields(i)
          /\ IndexEntry(i) = Ts("aware", MaxT)
          /\ Cached(i).ts = << Ts("aware", MaxT), Missing, Ts("aware", 1) >>
          /\ classOf[i] = "skip"
=============================================================================
